---- MODULE Spec2Model ----
(***************************************************************************)
(* A model of the ShowBuff import backend (src/etl-backend): the title     *)
(* extractor, the matcher with its remote fallback, the TMDB client with   *)
(* its cache and rate limiter, the confirmation endpoint, and the import   *)
(* job run by queue workers.                                               *)
(*                                                                         *)
(* Text is a sequence of one-character strings, so that strip, lower,      *)
(* replace and the title/year pattern are computed, not assumed.           *)
(* Python's None is NULL for numbers and the empty sequence for text the   *)
(* code only ever tests for truthiness.  Floats are scaled integers:       *)
(* a confidence is in hundredths.                                          *)
(***************************************************************************)
EXTENDS Integers, Sequences, FiniteSets, TLC

VARIABLES
    movies,      \* table movies, as the acting session sees it / committed rows
    shows,       \* table tv_shows
    mcall,       \* the matcher's last call: its input, what it returned, the remote calls it made
    now,         \* wall clock, in ticks of SLEEP_MS milliseconds
    steps,       \* clock steps taken so far
    cfg,         \* Config: whether TMDB_API_KEY and REDIS_URL are set
    cache,       \* Redis: the search results stored with setex
    ratelimit,   \* Redis: the counter ratelimit:<bucket>:<second> of the running second
    issued,      \* per bucket, the requests sent to the provider in the running second
    search,      \* per caller, its call of _search_tmdb and where it stands
    lastStore,   \* per query key, the list last stored for it and when
    sessions,    \* table import_sessions: per import id, the committed row
    extracted_titles,   \* table extracted_titles: the committed rows
    title_matches,    \* table title_matches: the committed rows
    uploads,     \* per import id, the upload request that creates it and where it stands
    queue,       \* the broker's queue of tasks.process_import_file messages
    runs,        \* the number of deliveries made so far
    worker,      \* per worker, the run of process_import_file it is in
    files,       \* the paths that exist in the workers' filesystem
    confirm,     \* the last call of confirm_matches: its body and its response
    ecall,       \* the extractor's last call: the text it was given and its records
    reader       \* a call of get_import_matches: what it has read so far

matcherVars == <<movies, shows, mcall>>
tmdbVars == <<now, steps, cfg, cache, ratelimit, issued, search, lastStore>>
jobVars == <<sessions, extracted_titles, title_matches, uploads, queue, runs, worker, files, confirm, ecall, reader>>
vars == <<matcherVars, tmdbVars, jobVars>>

NULL == -1

Callers == {"c1", "c2"}

\* the parts of the state a specification leaves alone
IdleMatcher == movies = {} /\ shows = {} /\ mcall = [done |-> FALSE]
IdleTmdb ==
    /\ now = 0 /\ steps = 0
    /\ cfg = [TMDB_API_KEY |-> TRUE, REDIS_URL |-> TRUE]
    /\ cache = {} /\ lastStore = {}
    /\ ratelimit = [b \in {"tmdb_search_movie", "tmdb_search_tv"} |-> [second |-> 0, count |-> 0]]
    /\ issued = [b \in {"tmdb_search_movie", "tmdb_search_tv"} |-> [second |-> 0, count |-> 0]]
    /\ search = [c \in Callers |-> [pc |-> "idle"]]

IdleJob ==
    /\ sessions = <<>> /\ extracted_titles = {} /\ title_matches = {}
    /\ uploads = <<>> /\ queue = {} /\ runs = 0
    /\ worker = <<>> /\ files = {}
    /\ confirm = [done |-> FALSE]
    /\ ecall = [done |-> FALSE]
    /\ reader = [pc |-> "idle"]

\* ------------------------------------------------------------------ text

Upper == <<"A","B","C","D","E","F","G","H","I","J","K","L","M",
           "N","O","P","Q","R","S","T","U","V","W","X","Y","Z">>
Lowr  == <<"a","b","c","d","e","f","g","h","i","j","k","l","m",
           "n","o","p","q","r","s","t","u","v","w","x","y","z">>
Digits == <<"0","1","2","3","4","5","6","7","8","9">>

IsSpace(c) == c \in {" ", "\t"}
IsDigit(c) == \E i \in 1..10 : Digits[i] = c
DigitVal(c) == (CHOOSE i \in 1..10 : Digits[i] = c) - 1

LowerChar(c) ==
    IF \E i \in 1..26 : Upper[i] = c
    THEN Lowr[CHOOSE i \in 1..26 : Upper[i] = c]
    ELSE c

\* str.lower()
Lower(s) == [i \in 1..Len(s) |-> LowerChar(s[i])]

\* str.replace(a, b) for one-character a and b
Replace(s, a, b) == [i \in 1..Len(s) |-> IF s[i] = a THEN b ELSE s[i]]

\* str.strip()
Strip(s) ==
    LET idx == {i \in 1..Len(s) : ~IsSpace(s[i])}
    IN  IF idx = {} THEN <<>>
        ELSE LET lo == CHOOSE i \in idx : \A j \in idx : i <= j
                 hi == CHOOSE i \in idx : \A j \in idx : j <= i
             IN  SubSeq(s, lo, hi)

\* re.sub(r"\s+", " ", text): every run of whitespace becomes one space
RECURSIVE CollapseWs(_)
CollapseWs(s) ==
    IF s = <<>> THEN <<>>
    ELSE IF IsSpace(Head(s))
         THEN IF Len(s) > 1 /\ IsSpace(s[2])
              THEN CollapseWs(Tail(s))
              ELSE <<" ">> \o CollapseWs(Tail(s))
         ELSE <<Head(s)>> \o CollapseWs(Tail(s))

\* int() of a string of decimal digits
RECURSIVE ToInt(_)
ToInt(s) == IF s = <<>> THEN 0 ELSE 10 * ToInt(SubSeq(s, 1, Len(s) - 1)) + DigitVal(s[Len(s)])

AllDigits(s) == \A i \in 1..Len(s) : IsDigit(s[i])

\* Python truthiness of an optional number, and of text
Truthy(n) == n # NULL /\ n # 0
Or(a, b) == IF a # <<>> THEN a ELSE b
OrNum(a, b) == IF Truthy(a) THEN a ELSE b

\* ------------------------------------------------------------- extractor

_normalize_title(text) == Strip(CollapseWs(text))

\* the suffix s[k+1..] matches (?:\s*\((19\d{2}|20\d{2})\))?$ with the group taken
YearSuffixAt(s, k) ==
    LET n == Len(s) IN
    /\ n - k >= 6
    /\ s[n - 5] = "(" /\ s[n] = ")"
    /\ AllDigits(SubSeq(s, n - 4, n - 1))
    /\ <<s[n - 4], s[n - 3]>> \in {<<"1","9">>, <<"2","0">>}
    /\ \A i \in (k + 1)..(n - 6) : IsSpace(s[i])

\* _TITLE_YEAR_RE.match(line): the lazy title group takes the fewest characters
\* (at least one) after which the rest of the line is the optional year suffix
\* or empty; a line always matches from its first character on when non-empty.
_TITLE_YEAR_RE(line) ==
    LET n  == Len(line)
        ks == {k \in 1..n : k = n \/ YearSuffixAt(line, k)}
        k  == CHOOSE x \in ks : \A y \in ks : x <= y
    IN  IF n = 0 THEN [matched |-> FALSE, title |-> <<>>, year |-> <<>>]
        ELSE [matched |-> TRUE,
              title   |-> SubSeq(line, 1, k),
              year    |-> IF k < n THEN SubSeq(line, n - 4, n - 1) ELSE <<>>]

\* the loop body of extract_titles_from_file / extract_titles_from_text for one
\* line: a sequence holding the record, or nothing when the line is dropped
ExtractLine(raw) ==
    LET line == raw
        m    == _TITLE_YEAR_RE(line)
        title == _normalize_title(m.title)
        year == IF m.year # <<>> THEN ToInt(m.year) ELSE NULL
    IN  IF line = <<>> \/ ~m.matched \/ title = <<>> THEN <<>>
        ELSE << [raw_text |-> line, normalized_title |-> title, year |-> year] >>

RECURSIVE ExtractLines(_)
ExtractLines(lines) ==
    IF lines = <<>> THEN <<>>
    ELSE ExtractLine(Head(lines)) \o ExtractLines(Tail(lines))

\* extract_titles_from_text: splitlines(), each line stripped
extract_titles_from_text(lines) == ExtractLines([i \in 1..Len(lines) |-> Strip(lines[i])])

\* ---------------------------------------------------------------- matcher

CONF_LOCAL == 95
CONF_FIRST == 90
CONF_REST == 75
LOCAL_LIMIT == 5
MAX_RESULTS == 3

Min(a, b) == IF a <= b THEN a ELSE b

\* ORDER BY popularity DESC NULLS LAST: a may come before b
PopBefore(a, b) ==
    \/ b.popularity = NULL
    \/ a.popularity # NULL /\ a.popularity >= b.popularity

\* .order_by(...).limit(5).all(): every order the database may return the rows
\* in (rows of equal popularity come in any order), cut to the limit
OrderedLimited(rows) ==
    LET n == Cardinality(rows)
        perms == {f \in [1..n -> rows] :
                    /\ \A i, j \in 1..n : i # j => f[i] # f[j]
                    /\ \A i, j \in 1..n : i < j => PopBefore(f[i], f[j])}
    IN  {SubSeq(f, 1, Min(n, LOCAL_LIMIT)) : f \in perms}

\* a variant that forgets the year filter
MovieQueryAnyYear(tbl, title, year) ==
    {m \in tbl : Lower(m.title) = Lower(title)}

\* Movie.query.filter(lower(title) == lower(title))[.filter(year == year)]
MovieQuery(tbl, title, year) ==
    {m \in tbl : Lower(m.title) = Lower(title) /\ (Truthy(year) => m.year = year)}

TvQuery(tbl, title, year) ==
    {s \in tbl : Lower(s.name) = Lower(title) /\ (Truthy(year) => s.first_air_year = year)}

TitleMatch(extracted, media, row, conf, method) ==
    [extracted_title_id |-> extracted.id, media_type |-> media,
     tmdb_id |-> row.tmdb_id, local_id |-> row.id,
     confidence |-> conf, match_method |-> method, is_ambiguous |-> FALSE]

\* a variant that marks only from the third match on
MarkAmbiguousFromThree(matches) ==
    IF Len(matches) > 2
    THEN [i \in 1..Len(matches) |-> [matches[i] EXCEPT !.is_ambiguous = TRUE]]
    ELSE matches

\* if len(matches) > 1: every match is marked ambiguous
MarkAmbiguous(matches) ==
    IF Len(matches) > 1
    THEN [i \in 1..Len(matches) |-> [matches[i] EXCEPT !.is_ambiguous = TRUE]]
    ELSE matches

\* int(release_date[:4]) if release_date else prior; a ValueError keeps prior.
\* The dates of the model hold digits, letters, "-" and "/" only.
YearOf(date, prior) ==
    LET head == SubSeq(date, 1, Min(4, Len(date)))
    IN  IF date # <<>> /\ AllDigits(head) THEN ToInt(head) ELSE prior

\* _upsert_movie followed by db.session.flush(): [ok, row, tbl, next]; ok is
\* FALSE (the function returns None) when the result carries no id
_upsert_movie(tbl, next, data) ==
    IF ~Truthy(data.id) THEN [ok |-> FALSE, tbl |-> tbl, next |-> next]
    ELSE
      LET found == {m \in tbl : m.tmdb_id = data.id}
          old == IF found # {} THEN CHOOSE m \in found : TRUE
                 ELSE [id |-> next, tmdb_id |-> data.id, title |-> <<>>,
                       original_title |-> <<>>, year |-> NULL,
                       popularity |-> NULL, adult |-> FALSE]
          new == [id |-> old.id, tmdb_id |-> old.tmdb_id,
                  title |-> Or(data.title, Or(data.original_title, old.title)),
                  original_title |-> Or(data.original_title, old.original_title),
                  year |-> YearOf(data.release_date, old.year),
                  popularity |-> OrNum(data.popularity, old.popularity),
                  adult |-> data.adult]
      IN  [ok |-> TRUE, row |-> new, tbl |-> (tbl \ found) \cup {new},
           next |-> IF found # {} THEN next ELSE next + 1]

\* a variant that builds the row and never adds it to the session
_upsert_tv_unsaved(tbl, next, data) ==
    IF ~Truthy(data.id) THEN [ok |-> FALSE, tbl |-> tbl, next |-> next]
    ELSE [ok |-> TRUE, tbl |-> tbl, next |-> next,
          row |-> [id |-> next, tmdb_id |-> data.id, name |-> data.name,
                   original_name |-> data.original_name, first_air_year |-> NULL,
                   popularity |-> data.popularity, adult |-> data.adult]]

_upsert_tv(tbl, next, data) ==
    IF ~Truthy(data.id) THEN [ok |-> FALSE, tbl |-> tbl, next |-> next]
    ELSE
      LET found == {s \in tbl : s.tmdb_id = data.id}
          old == IF found # {} THEN CHOOSE s \in found : TRUE
                 ELSE [id |-> next, tmdb_id |-> data.id, name |-> <<>>,
                       original_name |-> <<>>, first_air_year |-> NULL,
                       popularity |-> NULL, adult |-> FALSE]
          new == [id |-> old.id, tmdb_id |-> old.tmdb_id,
                  name |-> Or(data.name, Or(data.original_name, old.name)),
                  original_name |-> Or(data.original_name, old.original_name),
                  first_air_year |-> YearOf(data.first_air_date, old.first_air_year),
                  popularity |-> OrNum(data.popularity, old.popularity),
                  adult |-> data.adult]
      IN  [ok |-> TRUE, row |-> new, tbl |-> (tbl \ found) \cup {new},
           next |-> IF found # {} THEN next ELSE next + 1]

\* a variant that counts the results from 1
ConfidenceFromOne(idx) == IF idx = 1 THEN CONF_FIRST ELSE CONF_REST

\* confidence = 0.9 if idx == 0 else 0.75 (idx counts the provider's results from 0)
Confidence(idx) == IF idx = 0 THEN CONF_FIRST ELSE CONF_REST

\* for idx, data in enumerate(tmdb_movies[:MAX_RESULTS]): ... from result idx+1 on
RECURSIVE MovieLoop(_, _, _, _, _)
MovieLoop(extracted, results, idx, tbl, next) ==
    IF idx >= Min(Len(results), MAX_RESULTS)
    THEN [matches |-> <<>>, tbl |-> tbl, next |-> next]
    ELSE LET u == _upsert_movie(tbl, next, results[idx + 1])
             rest == MovieLoop(extracted, results, idx + 1, u.tbl, u.next)
         IN  IF ~u.ok THEN rest
             ELSE [rest EXCEPT !.matches =
                     <<TitleMatch(extracted, "movie", u.row, Confidence(idx), "tmdb_search")>> \o @]

RECURSIVE TvLoop(_, _, _, _, _)
TvLoop(extracted, results, idx, tbl, next) ==
    IF idx >= Min(Len(results), MAX_RESULTS)
    THEN [matches |-> <<>>, tbl |-> tbl, next |-> next]
    ELSE LET u == _upsert_tv(tbl, next, results[idx + 1])
             rest == TvLoop(extracted, results, idx + 1, u.tbl, u.next)
         IN  IF ~u.ok THEN rest
             ELSE [rest EXCEPT !.matches =
                     <<TitleMatch(extracted, "tv", u.row, Confidence(idx), "tmdb_search")>> \o @]

\* the catalog as a call leaves it
Cat(mv, nm, tv, nt) == [movies |-> mv, nextMovie |-> nm, shows |-> tv, nextShow |-> nt]

\* the local part of find_matches_for_extracted_title: each list of matches the
\* two queries may give
LocalMatches(cat, extracted, title) ==
    {   [i \in 1..Len(ms) |-> TitleMatch(extracted, "movie", ms[i], CONF_LOCAL, "local_exact")]
     \o [i \in 1..Len(ss) |-> TitleMatch(extracted, "tv", ss[i], CONF_LOCAL, "local_exact")] :
        ms \in OrderedLimited(MovieQuery(cat.movies, title, extracted.year)),
        ss \in OrderedLimited(TvQuery(cat.shows, title, extracted.year)) }

\* the remote part: ret.movie and ret.tv are what search_tmdb_movies and
\* search_tmdb_tv do when called, [raised, results]
RemoteMatches(cat, extracted, ret) ==
    IF ret.movie.raised
    THEN [raised |-> TRUE, matches |-> <<>>, cat |-> cat, calls |-> <<"movie">>]
    ELSE IF ret.tv.raised
    THEN [raised |-> TRUE, matches |-> <<>>, cat |-> cat, calls |-> <<"movie", "tv">>]
    ELSE LET m == MovieLoop(extracted, ret.movie.results, 0, cat.movies, cat.nextMovie)
             t == TvLoop(extracted, ret.tv.results, 0, cat.shows, cat.nextShow)
         IN  [raised |-> FALSE,
              matches |-> MarkAmbiguous(m.matches \o t.matches),
              cat |-> Cat(m.tbl, m.next, t.tbl, t.next),
              calls |-> <<"movie", "tv">>]

\* find_matches_for_extracted_title(extracted): the set of its possible outcomes
\* [raised, matches, cat, calls]; calls lists the remote searches made
find_matches_for_extracted_title(cat, extracted, ret) ==
    LET title == Strip(extracted.normalized_title)
        none == [raised |-> FALSE, matches |-> <<>>, cat |-> cat, calls |-> <<>>]
        local == LocalMatches(cat, extracted, title)
    IN  IF title = <<>> THEN {none}
        ELSE IF \E l \in local : l # <<>>
        THEN {[none EXCEPT !.matches = MarkAmbiguous(l)] : l \in local}
        ELSE {RemoteMatches(cat, extracted, ret)}

\* ------------------------------------------------------------ TMDB client

\* time.sleep(0.2), in milliseconds; one tick of the clock is one such sleep
SLEEP_MS == 200
TICKS_PER_SEC == 1000 \div SLEEP_MS
_CACHE_TTL_SECONDS == 24 * 60 * 60
TTL_TICKS == _CACHE_TTL_SECONDS * TICKS_PER_SEC
LIMIT_PER_SEC == 5
SLEEP_TICKS == SLEEP_MS \div SLEEP_MS

\* int(time.time())
Second(t) == t \div TICKS_PER_SEC

Kinds == {"movie", "tv"}
\* search_tmdb_movies / search_tmdb_tv: the cache prefix and the rate-limit bucket
Prefix(kind) == IF kind = "movie" THEN "tmdb_search_movie" ELSE "tmdb_search_tv"
Bucket(kind) == IF kind = "movie" THEN "tmdb_search_movie" ELSE "tmdb_search_tv"

\* a variant that keys the cache by the title as typed
_cache_key_as_typed(prefix, title, year) ==
    <<"showbuff", prefix, title, IF Truthy(year) THEN year ELSE NULL>>

\* _cache_key(cache_prefix, title=title.lower(), year=year or "*"); NULL stands for "*"
_cache_key(prefix, title, year) ==
    <<"showbuff", prefix, Lower(title), IF Truthy(year) THEN year ELSE NULL>>

\* _redis.get(key): the entry stored under key and not yet expired
Cached(key) == {e \in cache : e.key = key /\ now < e.expires}

\* _redis.setex(key, ttl, value)
Setex(key, ttl, value) ==
    {e \in cache : e.key # key} \cup {[key |-> key, value |-> value, expires |-> now + ttl]}

\* ------------------------------------------------------ the matcher alone

MaxRemote == 4

tUp == <<"U","p">>
tUP == <<"U","P">>
tHeat == <<"H","e","a","t">>

\* results of the provider's /search/movie and /search/tv
pm0 == [id |-> 0, title |-> tUp, original_title |-> <<>>,
        release_date |-> <<"2","0","0","9","-","0","5">>, popularity |-> 3, adult |-> FALSE]
pm7 == [id |-> 7, title |-> tUp, original_title |-> <<>>,
        release_date |-> <<"2","0","0","9","-","0","5">>, popularity |-> 9, adult |-> FALSE]
pm8 == [id |-> 8, title |-> <<>>, original_title |-> tUP,
        release_date |-> <<"n","/","a">>, popularity |-> NULL, adult |-> TRUE]
ps7 == [id |-> 7, name |-> tUp, original_name |-> <<>>,
        first_air_date |-> <<"1","9","9","9">>, popularity |-> 9, adult |-> FALSE]
ps9 == [id |-> 9, name |-> tHeat, original_name |-> tHeat,
        first_air_date |-> <<>>, popularity |-> NULL, adult |-> FALSE]

MoviePool == {pm0, pm7, pm8}
ShowPool == {ps7, ps9}

SeqsUpTo(S, n) == UNION {[1..k -> S] : k \in 0..n}

Returned(results) == [raised |-> FALSE, results |-> results]
Raised == [raised |-> TRUE, results |-> <<>>]

\* catalogs that upserts of earlier imports leave behind
Row(data, id) == _upsert_movie({}, id, data).row
RowTv(data, id) == _upsert_tv({}, id, data).row
Catalogs ==
    { Cat({}, 1, {}, 1),
      Cat({Row(pm7, 1)}, 2, {}, 1),
      Cat({Row(pm7, 1), Row(pm8, 2)}, 3, {RowTv(ps7, 1)}, 2),
      Cat({Row(pm7, 1), Row([pm7 EXCEPT !.id = 8], 2)}, 3, {}, 1) }

Inputs ==
    [id : {1}, normalized_title : {tUp, tUP}, year : {NULL, 1999, 2009}]

InitMatcher ==
    /\ \E c \in Catalogs : movies = c.movies /\ shows = c.shows
    /\ mcall = [done |-> FALSE]
    /\ IdleTmdb
    /\ IdleJob

\* one call of find_matches_for_extracted_title
Match ==
    /\ ~mcall.done
    /\ \E e \in Inputs,
          rm \in {Returned(r) : r \in SeqsUpTo(MoviePool, MaxRemote)} \cup {Raised},
          rt \in {Returned(r) : r \in SeqsUpTo(ShowPool, MAX_RESULTS + 1)} \cup {Raised} :
         LET cat == Cat(movies, Cardinality(movies) + 1, shows, Cardinality(shows) + 1)
             ret == [movie |-> rm, tv |-> rt]
         IN  \E out \in find_matches_for_extracted_title(cat, e, ret) :
               /\ movies' = out.cat.movies
               /\ shows' = out.cat.shows
               /\ mcall' = [done |-> TRUE, extracted |-> e, before |-> cat,
                            \* what the searches returned, when they were called
                            ret |-> [movie |-> IF Len(out.calls) >= 1 THEN rm ELSE Raised,
                                     tv |-> IF Len(out.calls) >= 2 THEN rt ELSE Raised],
                            out |-> out]
    /\ UNCHANGED <<tmdbVars, jobVars>>

\* ---- _search_tmdb, step by step

MaxClockSteps == 2
MaxBurst == 6
MaxMisses == 1

\* the searches of the cache's specification: a title in two letter cases for
\* movies, and the title with a year for shows
Queries ==
    { [kind |-> "movie", title |-> tUp, year |-> NULL],
      [kind |-> "movie", title |-> tUP, year |-> NULL],
      [kind |-> "tv", title |-> tUp, year |-> 1999] }
\* the searches of the rate limiter's specification
BurstCallers == {"c1", "c2"}
BurstQueries ==
    { [kind |-> "movie", title |-> tUp, year |-> NULL],
      [kind |-> "movie", title |-> tHeat, year |-> NULL] }

\* what the provider answers to a request: the results of a 200, a non-success
\* status, or no answer at all (connection failure, timeout)
Ok(results) == [kind |-> "ok", results |-> results]
HttpError == [kind |-> "http_error", results |-> <<>>]
Unreachable == [kind |-> "unreachable", results |-> <<>>]
Answers(kind) ==
    {Ok(r) : r \in IF kind = "movie" THEN {<<>>, <<pm7>>} ELSE {<<ps7>>}}
    \cup {HttpError, Unreachable}
BurstAnswers(kind) == {HttpError, Ok(IF kind = "movie" THEN <<pm7>> ELSE <<ps7>>)}

\* the key a claim speaks of: kind, title up to letter case, year
QueryKey(kind, title, year) == <<kind, Lower(title), year>>
Last(log, key) == {e \in log : e.key = key}

\* the searches of a bucket that missed the cache in the running second: those
\* counted by the limiter (without Redis: those sent) and those about to be
Arrived(b) ==
    (IF cfg.REDIS_URL
     THEN IF ratelimit[b].second = Second(now) THEN ratelimit[b].count ELSE 0
     ELSE IF issued[b].second = Second(now) THEN issued[b].count ELSE 0)
    + Cardinality({c \in Callers :
         /\ search[c].pc \in (IF cfg.REDIS_URL THEN {"rate_limit"} ELSE {"rate_limit", "request"})
         /\ Bucket(search[c].kind) = b})

\* _search_tmdb up to the cache lookup (tmdb_client.py 46-63).  At most burst
\* searches of a bucket miss the cache in one second.
SearchBegin(c, kind, title0, year, burst) ==
    /\ search[c].pc = "idle"
    /\ LET title == Strip(title0)
           qkey == QueryKey(kind, title0, year)
           key == _cache_key(Prefix(kind), title, year)
           hit == IF cfg.REDIS_URL THEN Cached(key) ELSE {}
           q == [pc |-> "rate_limit", kind |-> kind,
                 key |-> key, qkey |-> qkey, at |-> now, requests |-> 0,
                 result |-> <<>>, raised |-> FALSE, answer |-> "none",
                 \* another caller's query of this key has ended, less than 24 hours ago
                 repeated |-> \E a \in Callers \ {c} :
                                 /\ search[a].pc = "done" /\ search[a].qkey = qkey
                                 /\ now - search[a].at < TTL_TICKS,
                 \* the lists stored for this key less than 24 hours ago
                 stored |-> {e.list : e \in {x \in Last(lastStore, qkey) :
                                                 now - x.at < TTL_TICKS}}]
       IN  /\ (cfg.TMDB_API_KEY /\ title # <<>> /\ hit = {}) => Arrived(Bucket(kind)) < burst
           /\ search' = [search EXCEPT ![c] =
              IF ~cfg.TMDB_API_KEY \/ title = <<>> THEN [q EXCEPT !.pc = "done"]
              ELSE IF hit # {}
              THEN [q EXCEPT !.pc = "done", !.result = (CHOOSE e \in hit : TRUE).value]
              ELSE q]
    /\ UNCHANGED <<now, steps, cfg, cache, ratelimit, issued, lastStore, matcherVars, jobVars>>

\* _rate_limit(bucket): count the call in this second's counter; over the limit,
\* sleep
RateLimit(c) ==
    /\ search[c].pc = "rate_limit"
    /\ LET b == Bucket(search[c].kind)
           old == IF ratelimit[b].second = Second(now) THEN ratelimit[b].count ELSE 0
           count == old + 1
       IN  IF ~cfg.REDIS_URL
           THEN /\ search' = [search EXCEPT ![c].pc = "request"]
                /\ UNCHANGED ratelimit
           ELSE /\ ratelimit' = [ratelimit EXCEPT ![b] = [second |-> Second(now), count |-> count]]
                /\ search' = [search EXCEPT ![c] =
                      IF count > LIMIT_PER_SEC
                      THEN [@ EXCEPT !.pc = "sleep", !.at = now + SLEEP_TICKS]
                      ELSE [@ EXCEPT !.pc = "request"]]
    /\ UNCHANGED <<now, steps, cfg, cache, issued, lastStore, matcherVars, jobVars>>

\* time.sleep(0.2) returns
Wake(c) ==
    /\ search[c].pc = "sleep"
    /\ now >= search[c].at
    /\ search' = [search EXCEPT ![c].pc = "request"]
    /\ UNCHANGED <<now, steps, cfg, cache, ratelimit, issued, lastStore, matcherVars, jobVars>>

\* requests.get(...) sends the request
Request(c) ==
    /\ search[c].pc = "request"
    /\ LET b == Bucket(search[c].kind)
           old == IF issued[b].second = Second(now) THEN issued[b].count ELSE 0
       IN  issued' = [issued EXCEPT ![b] = [second |-> Second(now), count |-> old + 1]]
    /\ search' = [search EXCEPT ![c] = [@ EXCEPT !.pc = "waiting", !.requests = @ + 1]]
    /\ UNCHANGED <<now, steps, cfg, cache, ratelimit, lastStore, matcherVars, jobVars>>

\* requests.get(...) ends with answer a: it raises, or the response is handled
\* (tmdb_client.py 70-82)
Respond(c, a) ==
    /\ search[c].pc = "waiting"
    /\ search' = [search EXCEPT ![c] =
          [@ EXCEPT !.pc = "done", !.at = now, !.answer = a.kind,
                    !.raised = (a.kind = "unreachable"),
                    !.result = IF a.kind = "ok" THEN a.results ELSE <<>>]]
    /\ IF a.kind = "ok" /\ cfg.REDIS_URL
       THEN /\ cache' = Setex(search[c].key, TTL_TICKS, a.results)
            /\ lastStore' = {e \in lastStore : e.key # search[c].qkey}
                  \cup {[key |-> search[c].qkey, list |-> a.results, at |-> now]}
       ELSE UNCHANGED <<cache, lastStore>>
    /\ UNCHANGED <<now, steps, cfg, ratelimit, issued, matcherVars, jobVars>>

\* the caller takes the result; it may search again
Return(c) ==
    /\ search[c].pc = "done"
    /\ search' = [search EXCEPT ![c] = [pc |-> "idle"]]
    /\ UNCHANGED <<now, steps, cfg, cache, ratelimit, issued, lastStore, matcherVars, jobVars>>

\* time passes, by d ticks, while every caller is idle, asleep, waiting for the
\* provider or holding its result (a step of computation takes less than a
\* tick); Redis drops the keys that expire, among them the counter of a second
\* that is over
Advance(d) ==
    /\ steps < MaxClockSteps
    /\ \A c \in Callers : search[c].pc \in {"idle", "sleep", "waiting", "done"}
    /\ now' = now + d
    /\ steps' = steps + 1
    /\ cache' = {e \in cache : now + d < e.expires}
    /\ lastStore' = {e \in lastStore : now + d - e.at < TTL_TICKS}
    /\ ratelimit' = [b \in DOMAIN ratelimit |->
          IF ratelimit[b].second = Second(now + d) THEN ratelimit[b]
          ELSE [second |-> Second(now + d), count |-> 0]]
    /\ issued' = [b \in DOMAIN issued |->
          IF issued[b].second = Second(now + d) THEN issued[b]
          ELSE [second |-> Second(now + d), count |-> 0]]
    /\ UNCHANGED <<cfg, search, matcherVars, jobVars>>

InitTmdb ==
    /\ now = 0 /\ steps = 0
    /\ cfg \in [TMDB_API_KEY : BOOLEAN, REDIS_URL : BOOLEAN]
    /\ cache = {} /\ lastStore = {}
    /\ ratelimit = [b \in {Bucket(k) : k \in Kinds} |-> [second |-> 0, count |-> 0]]
    /\ issued = [b \in {Bucket(k) : k \in Kinds} |-> [second |-> 0, count |-> 0]]
    /\ search = [c \in Callers |-> [pc |-> "idle"]]
    /\ IdleMatcher
    /\ IdleJob

\* the cache: few cache misses a second (the limiter never makes a caller sleep),
\* a day may pass
NextTmdb ==
    \/ \E c \in Callers, q \in Queries : SearchBegin(c, q.kind, q.title, q.year, MaxMisses)
    \/ \E c \in Callers : RateLimit(c)
    \/ \E c \in Callers : Request(c)
    \/ \E c \in Callers : search[c].pc = "waiting" /\ \E a \in Answers(search[c].kind) : Respond(c, a)
    \/ \E c \in Callers : Return(c)
    \/ \E d \in {1, TTL_TICKS - 1} : Advance(d)

SpecTmdb == InitTmdb /\ [][NextTmdb]_vars

\* the rate limiter: bursts of searches within a few ticks
NextBurst ==
    \/ \E c \in BurstCallers, q \in BurstQueries : SearchBegin(c, q.kind, q.title, q.year, MaxBurst)
    \/ \E c \in BurstCallers : RateLimit(c)
    \/ \E c \in BurstCallers : Wake(c)
    \/ \E c \in BurstCallers : Request(c)
    \/ \E c \in BurstCallers : search[c].pc = "waiting" /\ \E a \in BurstAnswers(search[c].kind) : Respond(c, a)
    \/ \E c \in BurstCallers : Return(c)
    \/ Advance(1)

SpecBurst == InitTmdb /\ [][NextBurst]_vars

NextMatcher == Match

SpecMatcher == InitMatcher /\ [][NextMatcher]_vars

\* ------------------------------------------------------- the import job

MaxUploads == 1
MaxDeliveries == 2

ImportIds == 1..MaxUploads
Workers == {"w1", "w2"}

\* A text is the sequence of its lines.  A path is a text of one line.
tHeat1995 == <<"H","e","a","t"," "," ","(","1","9","9","5",")">>
\* a file that exists on the workers: its path, relative to their working
\* directory, and its lines
workerPath == <<"l",".","t","x","t">>
workerLines == << tUp, tHeat1995 >>
\* what a client uploads: a list of one title, or a text that reads as the path
\* of the workers' file
Contents == { << tUp >>, << workerPath >> }

\* open(path) in the plain-text branches of _iter_text_lines, then the loop of
\* extract_titles_from_file: [raised, records]; raised when no file has the path
extract_titles_from_file(fs, path) ==
    IF path \notin fs THEN [raised |-> TRUE, records |-> <<>>]
    ELSE [raised |-> FALSE,
          records |-> ExtractLines([i \in 1..Len(workerLines) |-> Strip(workerLines[i])])]

\* what the remote searches of one record do, when the matcher calls them
JobReturns ==
    { [movie |-> Returned(<<>>), tv |-> Returned(<<>>)],
      [movie |-> Returned(<<pm8>>), tv |-> Returned(<<ps9>>)],
      [movie |-> Returned(<<pm8>>), tv |-> Raised],
      [movie |-> Raised, tv |-> Raised] }

NoSession == [status |-> "none", total_titles |-> 0, matched_count |-> 0, unmatched_count |-> 0]
NoUpload == [pc |-> "none", content |-> <<>>, seen |-> "none", response |-> "none"]
EmptyTx == [extracted_titles |-> {}, title_matches |-> {}, movies |-> {}, shows |-> {}]
IdleWorker ==
    [pc |-> "idle", import_id |-> 0, path |-> <<>>, run |-> 0, records |-> <<>>,
     idx |-> 0, total |-> 0, matched |-> 0, tx |-> EmptyTx, events |-> <<>>,
     cause |-> "none", pending |-> <<>>]

\* a worker between two runs
Resting == {"idle", "returned", "raised"}

\* serial primary keys: distinct per run and record
ExtractedId(run, idx) == run * 10 + idx
FirstCatalogId(run, idx) == run * 100 + idx * 10
MatchId(eid, k) == eid * 10 + k
RunOf(eid) == eid \div 10

TmdbIds(rows) == {r.tmdb_id : r \in rows}
\* the tables as a worker's database session sees them: the committed rows,
\* and its own flushed ones in their place
Overlay(tbl, own) == {r \in tbl : r.tmdb_id \notin TmdbIds(own)} \cup own
\* the unique keys (table, tmdb_id) that the other workers' open transactions
\* have written
HeldByOthers(w) ==
    UNION {   {<<"movie", k>> : k \in TmdbIds(worker[o].tx.movies)}
         \cup {<<"tv", k>> : k \in TmdbIds(worker[o].tx.shows)} : o \in Workers \ {w}}
Keys(tx) == {<<"movie", k>> : k \in TmdbIds(tx.movies)} \cup {<<"tv", k>> : k \in TmdbIds(tx.shows)}

InitJob ==
    /\ sessions = [i \in ImportIds |-> NoSession]
    /\ extracted_titles = {} /\ title_matches = {}
    /\ movies = {Row(pm7, 1)} /\ shows = {}
    /\ uploads = [i \in ImportIds |-> NoUpload]
    /\ queue = {} /\ runs = 0
    /\ worker = [w \in Workers |-> IdleWorker]
    /\ files = {<< workerPath >>}
    /\ confirm = [done |-> FALSE]
    /\ ecall = [done |-> FALSE]
    /\ reader = [pc |-> "idle"]
    /\ mcall = [done |-> FALSE]
    /\ IdleTmdb

\* upload_file, for a request with a file and a file name, up to the commit of
\* the new session (routes.py 23-35)
UploadCommit(i, content) ==
    /\ uploads[i].pc = "none"
    /\ \A j \in ImportIds : j < i => uploads[j].pc # "none"
    /\ sessions' = [sessions EXCEPT ![i] = [NoSession EXCEPT !.status = "pending"]]
    /\ uploads' = [uploads EXCEPT ![i] = [NoUpload EXCEPT !.pc = "committed", !.content = content]]
    /\ UNCHANGED <<extracted_titles, title_matches, queue, runs, worker, files, confirm, ecall, reader, matcherVars, tmdbVars>>

\* upload_file: the file is read and the task sent, its second argument the
\* text of the file (routes.py 40-55); str(session.id) reloads the row, expired
\* by the commit
UploadEnqueue(i) ==
    /\ uploads[i].pc = "committed"
    /\ queue' = queue \cup {[import_id |-> i, path |-> uploads[i].content]}
    /\ uploads' = [uploads EXCEPT ![i] = [@ EXCEPT !.pc = "enqueued", !.seen = sessions[i].status]]
    /\ UNCHANGED <<sessions, extracted_titles, title_matches, runs, worker, files, confirm, ecall, reader, matcherVars, tmdbVars>>

\* a variant that reads the status from the database when the response is built
UploadRespondFresh(i) ==
    /\ uploads[i].pc = "enqueued"
    /\ uploads' = [uploads EXCEPT ![i] = [@ EXCEPT !.pc = "responded", !.response = sessions[i].status]]
    /\ UNCHANGED <<sessions, extracted_titles, title_matches, queue, runs, worker, files, confirm, ecall, reader, matcherVars, tmdbVars>>

\* upload_file: the response (routes.py 57), built from the attributes loaded
\* before the task was sent
UploadRespond(i) ==
    /\ uploads[i].pc = "enqueued"
    /\ uploads' = [uploads EXCEPT ![i] = [@ EXCEPT !.pc = "responded", !.response = uploads[i].seen]]
    /\ UNCHANGED <<sessions, extracted_titles, title_matches, queue, runs, worker, files, confirm, ecall, reader, matcherVars, tmdbVars>>

\* the broker hands a message to a free worker (the workers are alike: the
\* first free one takes it); the message leaves the queue, or stays to be
\* delivered again (at-least-once delivery)
Deliver(w, m, again) ==
    /\ worker[w].pc \in Resting
    /\ w = "w2" => worker["w1"].pc \notin Resting
    /\ m \in queue
    /\ runs < MaxDeliveries
    /\ runs' = runs + 1
    /\ queue' = IF again THEN queue ELSE queue \ {m}
    /\ worker' = [worker EXCEPT ![w] =
          [IdleWorker EXCEPT !.pc = "start", !.import_id = m.import_id,
                             !.path = m.path, !.run = runs + 1]]
    /\ UNCHANGED <<sessions, extracted_titles, title_matches, uploads, files, confirm, ecall, reader, matcherVars, tmdbVars>>

\* process_import_file, lines 21-26
Start(w) ==
    /\ worker[w].pc = "start"
    /\ LET i == worker[w].import_id
       IN  IF sessions[i].status = "none"
           THEN /\ worker' = [worker EXCEPT ![w].pc = "returned"]
                /\ UNCHANGED sessions
           ELSE /\ sessions' = [sessions EXCEPT ![i].status = "processing"]
                /\ worker' = [worker EXCEPT ![w].pc = "extract"]
    /\ UNCHANGED <<extracted_titles, title_matches, uploads, queue, runs, files, confirm, ecall, reader, matcherVars, tmdbVars>>

\* process_import_file, lines 28-31: an exception of the extractor ends the run
Extract(w) ==
    /\ worker[w].pc = "extract"
    /\ LET r == extract_titles_from_file(files, worker[w].path)
       IN  worker' = [worker EXCEPT ![w] =
              IF r.raised THEN [@ EXCEPT !.pc = "raised", !.cause = "extract"]
              ELSE [@ EXCEPT !.pc = IF r.records = <<>> THEN "finish" ELSE "record",
                             !.records = r.records, !.total = Len(r.records)]]
    /\ UNCHANGED <<sessions, extracted_titles, title_matches, uploads, queue, runs, files, confirm, ecall, reader, matcherVars, tmdbVars>>

\* a variant that counts every match
MatchedPerMatch(count, matches) == count + Len(matches)

\* if matches: matched += 1
Matched(count, matches) == IF matches # <<>> THEN count + 1 ELSE count

\* process_import_file, lines 33-64, for the next record: the row is added and
\* flushed, the matcher called, its matches added, the progress event emitted.
\* socketio.emit may raise (delivered = FALSE): the exception is passed over.
\* An exception of the matcher ends the run and the transaction is rolled
\* back.  A flush that writes a unique key another open transaction has
\* written waits for that transaction.
Record(w, delivered) ==
    /\ worker[w].pc = "record"
    /\ LET wk == worker[w]
           idx == wk.idx + 1
           rec == wk.records[idx]
           row == [id |-> ExtractedId(wk.run, idx), import_id |-> wk.import_id,
                   raw_text |-> rec.raw_text, normalized_title |-> rec.normalized_title,
                   year |-> rec.year]
           mv == Overlay(movies, wk.tx.movies)
           tv == Overlay(shows, wk.tx.shows)
           first == FirstCatalogId(wk.run, idx)
       IN  \E ret \in JobReturns :
           \E out \in find_matches_for_extracted_title(Cat(mv, first, tv, first), row, ret) :
             LET matched == Matched(wk.matched, out.matches)
                 tx == [extracted_titles |-> wk.tx.extracted_titles \cup {row},
                        title_matches |-> wk.tx.title_matches \cup
                            {[id |-> MatchId(row.id, k), row |-> out.matches[k]] :
                                 k \in 1..Len(out.matches)},
                        movies |-> wk.tx.movies \cup (out.cat.movies \ mv),
                        shows |-> wk.tx.shows \cup (out.cat.shows \ tv)]
                 after == [wk EXCEPT !.idx = idx, !.matched = matched, !.tx = tx,
                                     !.pc = IF idx = wk.total THEN "finish" ELSE "record",
                                     !.events = Append(@, [processed |-> idx, total |-> wk.total,
                                                           matched |-> matched,
                                                           delivered |-> delivered])]
             IN  worker' = [worker EXCEPT ![w] =
                    IF out.raised
                    THEN [wk EXCEPT !.pc = "raised", !.cause = "matcher", !.tx = EmptyTx]
                    ELSE IF (Keys(tx) \ Keys(wk.tx)) \cap HeldByOthers(w) # {}
                    THEN [wk EXCEPT !.pc = "blocked", !.pending = <<after>>]
                    ELSE after]
    /\ UNCHANGED <<sessions, extracted_titles, title_matches, uploads, queue, runs, files, confirm, ecall, reader, matcherVars, tmdbVars>>

\* the transaction a flush waited for has ended.  If it committed a row with the
\* key, the waiting INSERT fails on the unique constraint and the exception ends
\* the run; if it was rolled back, the flush goes through.
Unblock(w) ==
    /\ worker[w].pc = "blocked"
    /\ LET wk == worker[w]
           after == wk.pending[1]
           wanted == Keys(after.tx) \ Keys(wk.tx)
           taken == {<<"movie", r.tmdb_id>> : r \in movies} \cup {<<"tv", r.tmdb_id>> : r \in shows}
       IN  /\ wanted \cap HeldByOthers(w) = {}
           /\ worker' = [worker EXCEPT ![w] =
                 IF wanted \cap taken # {}
                 THEN [wk EXCEPT !.pc = "raised", !.cause = "integrity",
                                 !.tx = EmptyTx, !.pending = <<>>]
                 ELSE after]
    /\ UNCHANGED <<sessions, extracted_titles, title_matches, uploads, queue, runs, files, confirm, ecall, reader, matcherVars, tmdbVars>>

\* a variant that stores the counts and leaves the status
countsOnly(n, k) ==
    [status |-> "processing", total_titles |-> n, matched_count |-> k, unmatched_count |-> n - k]

\* the session row as lines 66-69 set it
doneSession(n, k) ==
    [status |-> "completed", total_titles |-> n, matched_count |-> k, unmatched_count |-> n - k]

\* process_import_file, lines 66-70: the counts and the status are set and the
\* transaction committed
Finish(w) ==
    /\ worker[w].pc = "finish"
    /\ LET wk == worker[w]
           i == wk.import_id
       IN  /\ sessions' = [sessions EXCEPT ![i] = doneSession(wk.total, wk.matched)]
           /\ extracted_titles' = extracted_titles \cup wk.tx.extracted_titles
           /\ title_matches' = title_matches \cup wk.tx.title_matches
           /\ movies' = Overlay(movies, wk.tx.movies)
           /\ shows' = Overlay(shows, wk.tx.shows)
           /\ worker' = [worker EXCEPT ![w] = [wk EXCEPT !.pc = "cleanup", !.tx = EmptyTx]]
    /\ UNCHANGED <<uploads, queue, runs, files, confirm, ecall, reader, mcall, tmdbVars>>

\* process_import_file, lines 72-77: os.remove(path) when the path exists; an
\* OSError (removed = FALSE) is passed over
Cleanup(w, removed) ==
    /\ worker[w].pc = "cleanup"
    /\ files' = IF worker[w].path \in files /\ removed THEN files \ {worker[w].path} ELSE files
    /\ worker' = [worker EXCEPT ![w].pc = "returned"]
    /\ UNCHANGED <<sessions, extracted_titles, title_matches, uploads, queue, runs, confirm, ecall, reader, matcherVars, tmdbVars>>

\* get_import_matches, up to the session's row (routes.py 60-70): the row is
\* loaded by a statement of its own
ReadSession(i) ==
    /\ reader.pc = "idle"
    /\ reader' = IF i \notin DOMAIN sessions \/ sessions[i].status = "none"
                 THEN [pc |-> "done", import_id |-> i, code |-> 404, status |-> "none",
                       total |-> 0, titles |-> {}, matches |-> {}]
                 ELSE [pc |-> "loaded", import_id |-> i, code |-> 200,
                       status |-> sessions[i].status, total |-> sessions[i].total_titles,
                       titles |-> {}, matches |-> {}]
    /\ UNCHANGED <<sessions, extracted_titles, title_matches, uploads, queue, runs, worker,
                   files, confirm, ecall, matcherVars, tmdbVars>>

\* get_import_matches, lines 72-106: session.extracted_titles and their matches
\* are loaded when the loop reaches them, by later statements, and the response
\* is built from the row loaded before
ReadTitles ==
    /\ reader.pc = "loaded"
    /\ LET ts == {e \in extracted_titles : e.import_id = reader.import_id}
       IN  reader' = [reader EXCEPT !.pc = "done", !.titles = ts,
                        !.matches = {m \in title_matches :
                                        \E e \in ts : m.row.extracted_title_id = e.id}]
    /\ UNCHANGED <<sessions, extracted_titles, title_matches, uploads, queue, runs, worker,
                   files, confirm, ecall, matcherVars, tmdbVars>>

\* uploads, deliveries (also repeated) and runs; the progress events are
\* delivered (SpecTwoJobs has them fail)
Next ==
    \/ \E i \in ImportIds, c \in Contents : UploadCommit(i, c)
    \/ \E i \in ImportIds : UploadEnqueue(i)
    \/ \E i \in ImportIds : UploadRespond(i)
    \/ \E w \in Workers, m \in queue, again \in BOOLEAN : Deliver(w, m, again)
    \/ \E w \in Workers : Start(w)
    \/ \E w \in Workers : Extract(w)
    \/ \E w \in Workers : Record(w, TRUE)
    \/ \E w \in Workers : Unblock(w)
    \/ \E w \in Workers : Finish(w)
    \/ \E w \in Workers, removed \in BOOLEAN : Cleanup(w, removed)

Spec == InitJob /\ [][Next]_vars

\* ---- two imports at once: the state after two uploads of a text that reads
\* as the path of the workers' file, their jobs queued; each message is
\* delivered once; the emission of a progress event may fail; a client
\* asks once for the matches of an import
InitTwoJobs ==
    /\ sessions = [i \in {1, 2} |-> [NoSession EXCEPT !.status = "pending"]]
    /\ extracted_titles = {} /\ title_matches = {}
    /\ movies = {Row(pm7, 1)} /\ shows = {}
    /\ uploads = [i \in {1, 2} |->
          [pc |-> "responded", content |-> << workerPath >>, seen |-> "pending", response |-> "pending"]]
    /\ queue = {[import_id |-> i, path |-> << workerPath >>] : i \in {1, 2}}
    /\ runs = 0
    /\ worker = [w \in Workers |-> IdleWorker]
    /\ files = {<< workerPath >>}
    /\ confirm = [done |-> FALSE]
    /\ ecall = [done |-> FALSE]
    /\ reader = [pc |-> "idle"]
    /\ mcall = [done |-> FALSE]
    /\ IdleTmdb

NextTwoJobs ==
    \/ \E w \in Workers, m \in queue : Deliver(w, m, FALSE)
    \/ \E i \in {1, 2, 7} : ReadSession(i)
    \/ ReadTitles
    \/ \E w \in Workers : Start(w)
    \/ \E w \in Workers : Extract(w)
    \/ \E w \in Workers, delivered \in BOOLEAN : Record(w, delivered)
    \/ \E w \in Workers : Unblock(w)
    \/ \E w \in Workers : Finish(w)
    \/ \E w \in Workers, removed \in BOOLEAN : Cleanup(w, removed)

SpecTwoJobs == InitTwoJobs /\ [][NextTwoJobs]_vars

\* ------------------------------------------------------- confirm_matches

MaxChoices == 2

\* UUID(import_id) raises ValueError for this one
BadUuid == -2

\* the list types the endpoint accepts
VALID_LIST_TYPES ==
    { <<"w","a","t","c","h","l","i","s","t">>,
      <<"c","u","r","r","e","n","t","l","y","_","w","a","t","c","h","i","n","g">>,
      <<"w","a","t","c","h","e","d">> }

\* a variant that checks the extracted title against the session only
MismatchedIdsOfSession(sid, extracted_id, match_id) ==
    LET es == {e \in extracted_titles : e.id = extracted_id}
        ms == {m \in title_matches : m.id = match_id}
    IN  \/ es = {} \/ ms = {}
        \/ \E e \in es : e.import_id # sid

\* not extracted or not match or extracted.import_id != session.id
\* or match.extracted_title_id != extracted.id
MismatchedIds(sid, extracted_id, match_id) ==
    LET es == {e \in extracted_titles : e.id = extracted_id}
        ms == {m \in title_matches : m.id = match_id}
    IN  \/ es = {} \/ ms = {}
        \/ \E e \in es : e.import_id # sid
        \/ \E e \in es, m \in ms : m.row.extracted_title_id # e.id

\* the loop body of confirm_matches for one choice (routes.py 146-177): the
\* list the choice goes to and the entry appended
ConfirmChoice(sid, choice) ==
    LET extracted_id == choice.extractedTitleId
        match_id == choice.matchId
        list_type == Strip(choice.listType)
        lt == Replace(Lower(list_type), "-", "_")
        Invalid(reason) == [list |-> "invalid", entry |-> [choice |-> choice, reason |-> reason]]
    IN  IF ~Truthy(extracted_id) \/ ~Truthy(match_id) \/ list_type = <<>>
        THEN Invalid("missing fields")
        ELSE IF MismatchedIds(sid, extracted_id, match_id)
        THEN Invalid("mismatched ids")
        ELSE IF lt \notin VALID_LIST_TYPES
        THEN Invalid("invalid listType")
        ELSE LET m == CHOOSE x \in title_matches : x.id = match_id
             IN  [list |-> "validated",
                  entry |-> [extractedTitleId |-> extracted_id, matchId |-> m.id,
                             listType |-> lt, mediaType |-> m.row.media_type,
                             tmdbId |-> m.row.tmdb_id, localId |-> m.row.local_id]]

RECURSIVE ConfirmLoop(_, _)
ConfirmLoop(sid, choices) ==
    IF choices = <<>> THEN [validated |-> <<>>, invalid |-> <<>>]
    ELSE LET c == ConfirmChoice(sid, Head(choices))
             rest == ConfirmLoop(sid, Tail(choices))
         IN  IF c.list = "validated"
             THEN [rest EXCEPT !.validated = <<c.entry>> \o @]
             ELSE [rest EXCEPT !.invalid = <<c.entry>> \o @]

\* confirm_matches: the response to a body [importId, choices]
confirm_matches(body) ==
    LET none == [code |-> 400, error |-> "", validated |-> <<>>, invalid |-> <<>>]
    IN  IF ~Truthy(body.importId) THEN [none EXCEPT !.error = "importId is required"]
        ELSE IF body.importId = BadUuid THEN [none EXCEPT !.error = "invalid import id"]
        ELSE IF body.importId \notin DOMAIN sessions \/ sessions[body.importId].status = "none"
        THEN [none EXCEPT !.code = 404, !.error = "import not found"]
        ELSE LET r == ConfirmLoop(body.importId, body.choices)
             IN  [code |-> 200, error |-> "", validated |-> r.validated, invalid |-> r.invalid]

\* the choices a client sends: ids of rows of either session, of no row, or
\* none; list types blank, valid once stripped and normalised, or unknown
tBlank == <<" ">>
tCurrently == <<" ","C","u","r","r","e","n","t","l","y","-","W","a","t","c","h","i","n","g"," ">>
tSeen == <<"s","e","e","n">>
Choices ==
    [extractedTitleId : {NULL, 11, 21, 99},
     matchId : {NULL, 111, 121, 999},
     listType : {<<>>, tBlank, tCurrently, tSeen}]
Bodies ==
    {[importId |-> i, choices |-> c] : i \in {1, 2}, c \in SeqsUpTo(Choices, MaxChoices)}
    \cup {[importId |-> i, choices |-> c] : i \in {NULL, BadUuid, 7}, c \in SeqsUpTo(Choices, 1)}

\* two imports, as runs of the job leave them: the first with two titles, a
\* match each, the second with one title and its match
titleRow(id, i, title) ==
    [id |-> id, import_id |-> i, raw_text |-> title, normalized_title |-> title, year |-> NULL]
InitConfirm ==
    /\ sessions = [i \in {1, 2} |-> IF i = 1 THEN doneSession(2, 2) ELSE doneSession(1, 1)]
    /\ extracted_titles = {titleRow(11, 1, tUp), titleRow(12, 1, tHeat), titleRow(21, 2, tUp)}
    /\ movies = {Row(pm7, 1)} /\ shows = {RowTv(ps9, 1)}
    /\ title_matches =
         { [id |-> 111, row |-> TitleMatch(titleRow(11, 1, tUp), "movie", Row(pm7, 1), CONF_LOCAL, "local_exact")],
           [id |-> 121, row |-> TitleMatch(titleRow(12, 1, tHeat), "tv", RowTv(ps9, 1), CONF_LOCAL, "local_exact")],
           [id |-> 211, row |-> TitleMatch(titleRow(21, 2, tUp), "movie", Row(pm7, 1), CONF_LOCAL, "local_exact")] }
    /\ uploads = <<>> /\ queue = {} /\ runs = 0
    /\ worker = <<>> /\ files = {}
    /\ confirm = [done |-> FALSE]
    /\ ecall = [done |-> FALSE]
    /\ reader = [pc |-> "idle"]
    /\ mcall = [done |-> FALSE]
    /\ IdleTmdb

\* one call of confirm_matches
Confirm ==
    /\ ~confirm.done
    /\ \E body \in Bodies :
         confirm' = [done |-> TRUE, body |-> body, response |-> confirm_matches(body)]
    /\ UNCHANGED <<sessions, extracted_titles, title_matches, uploads, queue, runs, worker,
                   files, ecall, reader, matcherVars, tmdbVars>>

NextConfirm == Confirm

SpecConfirm == InitConfirm /\ [][NextConfirm]_vars

\* ------------------------------------------------------ the extractor alone

MaxPrefix == 3

\* the lines of a text: some characters, then maybe something that looks like
\* a year in parentheses
YearLike ==
    { <<>>, <<"(","1","9","9","9",")">>, <<" ","(","2","0","0","9",")">>, <<"(","1","8","9","9",")">>, <<"(","2","1","0","0",")">>, <<"(","1","9","9",")">>, <<"(","1","9","9","9",")"," ">>, <<"(","2","0","x","9",")">> }
Lines == {p \o y : p \in SeqsUpTo({"U", " ", "("}, MaxPrefix), y \in YearLike}
Texts == {<<>>} \cup {<<l>> : l \in Lines}

InitExtract ==
    /\ ecall = [done |-> FALSE]
    /\ reader = [pc |-> "idle"]
    /\ sessions = <<>> /\ extracted_titles = {} /\ title_matches = {}
    /\ uploads = <<>> /\ queue = {} /\ runs = 0
    /\ worker = <<>> /\ files = {}
    /\ confirm = [done |-> FALSE]
    /\ IdleMatcher
    /\ IdleTmdb

\* one call of extract_titles_from_text
ExtractText ==
    /\ ~ecall.done
    /\ \E text \in Texts :
         ecall' = [done |-> TRUE, text |-> text, records |-> extract_titles_from_text(text)]
    /\ UNCHANGED <<sessions, extracted_titles, title_matches, uploads, queue, runs, worker,
                   files, confirm, reader, matcherVars, tmdbVars>>

NextExtract == ExtractText

SpecExtract == InitExtract /\ [][NextExtract]_vars

\* ---- claims about the matcher (checked under SpecMatcher)

Returns == mcall.done /\ ~mcall.out.raised
Matches == mcall.out.matches
FellBack == mcall.done /\ mcall.out.calls # <<>>

\* the entries of the catalog, before the call, that have the extracted title
\* (whatever the letter case) and, when a year was extracted, that year
SameTitle(a, b) == Len(a) = Len(b) /\ \A i \in 1..Len(a) : LowerChar(a[i]) = LowerChar(b[i])
YearFits(rowYear) == mcall.extracted.year = NULL \/ rowYear = mcall.extracted.year
MovieEntries ==
    {m \in mcall.before.movies :
        SameTitle(m.title, mcall.extracted.normalized_title) /\ YearFits(m.year)}
ShowEntries ==
    {t \in mcall.before.shows :
        SameTitle(t.name, mcall.extracted.normalized_title) /\ YearFits(t.first_air_year)}

\* C4: every match a call returns is flagged ambiguous exactly when the call
\* returns more than one match, local or remote.
C4_AmbiguousIffSeveral ==
    Returns => \A i \in 1..Len(Matches) : Matches[i].is_ambiguous <=> (Len(Matches) > 1)

\* C4 witness: a call that fell back to the provider and returned several matches.
C4_Witness ==
    /\ Returns /\ FellBack /\ Len(Matches) > 1
    /\ \A i \in 1..Len(Matches) : Matches[i].is_ambiguous

\* C5: with exactly one catalog entry of the extracted title (and year, when
\* given), the call returns that one match, not ambiguous, confidence 0.95,
\* method local_exact, and calls neither remote search.
C5_SingleLocalMatch ==
    (mcall.done /\ Cardinality(MovieEntries) + Cardinality(ShowEntries) = 1) =>
        /\ Returns
        /\ Len(Matches) = 1
        /\ ~Matches[1].is_ambiguous
        /\ Matches[1].confidence = CONF_LOCAL
        /\ Matches[1].match_method = "local_exact"
        /\ \A r \in MovieEntries \cup ShowEntries :
              Matches[1].tmdb_id = r.tmdb_id /\ Matches[1].local_id = r.id
        /\ mcall.out.calls = <<>>

\* C5 witness: a call with a year, where the year singles out one of several
\* entries of that title.
C5_Witness ==
    /\ mcall.done /\ mcall.extracted.year # NULL
    /\ Cardinality(MovieEntries) + Cardinality(ShowEntries) = 1
    /\ Cardinality({m \in mcall.before.movies :
                      SameTitle(m.title, mcall.extracted.normalized_title)}) > 1
    /\ Len(Matches) = 1

HasKind(kind) == \E i \in 1..Len(Matches) : Matches[i].media_type = kind
AllAmbiguous == \A i \in 1..Len(Matches) : Matches[i].is_ambiguous
NoEntry == MovieEntries = {} /\ ShowEntries = {}
Upserted(tbl, results, n) ==
    \A i \in 1..n : results[i].id # 0 => \E r \in tbl : r.tmdb_id = results[i].id
FirstThree(results) == Min(Len(results), MAX_RESULTS)
SomeId(results) == \E i \in 1..FirstThree(results) : results[i].id # 0

\* C6 as stated: no entry of the title, and the provider returns at least one
\* movie and one show; then a movie and a show match are returned, all matches
\* are ambiguous, and the catalog holds an entry for the id of every result
\* the provider returned.
C6_AsStated ==
    (/\ mcall.done /\ NoEntry
     /\ ~mcall.ret.movie.raised /\ ~mcall.ret.tv.raised
     /\ mcall.ret.movie.results # <<>> /\ mcall.ret.tv.results # <<>>) =>
        /\ Returns /\ HasKind("movie") /\ HasKind("tv") /\ AllAmbiguous
        /\ \A i \in 1..Len(mcall.ret.movie.results) :
              \E r \in movies : r.tmdb_id = mcall.ret.movie.results[i].id
        /\ \A i \in 1..Len(mcall.ret.tv.results) :
              \E r \in shows : r.tmdb_id = mcall.ret.tv.results[i].id

\* C6 amended: no entry of the title, and among the first three results of each
\* kind at least one carries an id; then a movie and a show match are returned,
\* all matches are ambiguous, and the catalog holds an entry for the id of each
\* of the first three results of each kind that carries one.
C6_FirstThreeUpserted ==
    (/\ mcall.done /\ NoEntry
     /\ ~mcall.ret.movie.raised /\ ~mcall.ret.tv.raised
     /\ SomeId(mcall.ret.movie.results) /\ SomeId(mcall.ret.tv.results)) =>
        /\ Returns /\ HasKind("movie") /\ HasKind("tv") /\ AllAmbiguous
        /\ Upserted(movies, mcall.ret.movie.results, FirstThree(mcall.ret.movie.results))
        /\ Upserted(shows, mcall.ret.tv.results, FirstThree(mcall.ret.tv.results))

\* C6 witness: a fallback on an empty catalog where the provider gave four
\* movie results, the fourth with an id of its own, and a show.
C6_Witness ==
    /\ Returns /\ FellBack /\ mcall.before.movies = {}
    /\ Len(mcall.ret.movie.results) = 4
    /\ mcall.ret.movie.results[4].id = 8
    /\ \A i \in 1..3 : mcall.ret.movie.results[i].id = 7
    /\ HasKind("movie") /\ HasKind("tv") /\ AllAmbiguous
    /\ \A r \in movies : r.tmdb_id # 8

\* ---- claims about the TMDB client (checked under SpecTmdb and SpecBurst)

Done(c) == search[c].pc = "done"

\* C7 as stated: with the cache configured, a query made less than 24 hours
\* after another query of the same kind, title (up to letter case) and year
\* sends no request to the provider.
C7_AsStated ==
    cfg.REDIS_URL =>
        \A c \in Callers : (Done(c) /\ search[c].repeated) => search[c].requests = 0

\* C7 amended: a query that begins less than 24 hours after a list was last
\* stored for its kind, title (up to letter case) and year (stored by a query
\* that got a successful response, with Redis configured) sends no request and
\* returns that list.
C7_CacheHit ==
    \A c \in Callers : (Done(c) /\ search[c].stored # {}) =>
        /\ search[c].requests = 0
        /\ ~search[c].raised
        /\ search[c].result \in search[c].stored

\* C7 witness: a query answered from the cache all but one tick of 24 hours
\* after the list was stored.
C7_Witness ==
    \E c \in Callers :
        /\ Done(c) /\ search[c].stored # {} /\ search[c].requests = 0
        /\ \E e \in lastStore : e.key = search[c].qkey /\ now - e.at = TTL_TICKS - 1

\* C8: with Redis configured, no more than 5 requests of one kind are sent to
\* the provider within one wall-clock second.
C8_AtMostFivePerSecond ==
    cfg.REDIS_URL => \A b \in DOMAIN issued : issued[b].count <= LIMIT_PER_SEC

\* C9 as stated: a remote search made without an API key, or whose request got
\* no answer (connection failure, timeout) or a non-success response, returns
\* the empty list and raises no error.
C9_AsStated ==
    \A c \in Callers :
        (Done(c) /\ (~cfg.TMDB_API_KEY \/ search[c].answer \in {"unreachable", "http_error"}))
            => (search[c].result = <<>> /\ ~search[c].raised)

\* the matches of one kind, in the order returned
KindMatches(kind) == SelectSeq(Matches, LAMBDA m : m.media_type = kind)
\* the places, among the first three results, of those that carry an id
WithId(results) ==
    SelectSeq([i \in 1..FirstThree(results) |-> i], LAMBDA i : results[i].id # NULL /\ results[i].id # 0)
\* the matches of a kind are built from the first three results that carry an
\* id, in the provider's order; the one built from the first result has
\* confidence 0.9, the others 0.75
BuiltFrom(kind, results) ==
    LET ms == KindMatches(kind)
        at == WithId(results)
    IN  /\ Len(ms) = Len(at)
        /\ Len(ms) <= 3
        /\ \A j \in 1..Len(ms) :
              /\ ms[j].tmdb_id = results[at[j]].id
              /\ ms[j].match_method = "tmdb_search"
              /\ ms[j].confidence = (IF at[j] = 1 THEN 90 ELSE 75)

\* C13: a call that falls back to the provider returns, per kind, at most 3
\* matches, in the provider's order, movies before shows, all with method
\* tmdb_search; a match has confidence 0.9 exactly when it is built from the
\* provider's first result of its kind, and 0.75 otherwise.
C13_RemoteConfidence ==
    (Returns /\ FellBack) =>
        /\ Matches = KindMatches("movie") \o KindMatches("tv")
        /\ BuiltFrom("movie", mcall.ret.movie.results)
        /\ BuiltFrom("tv", mcall.ret.tv.results)

\* C13 witness: the provider returns more than three movies, three are matched
\* (0.9, 0.75, 0.75), and at least two shows are matched
C13_Witness ==
    /\ Returns /\ FellBack
    /\ Len(mcall.ret.movie.results) > 3
    /\ Len(KindMatches("movie")) = 3
    /\ KindMatches("movie")[1].confidence = 90
    /\ KindMatches("movie")[3].confidence = 75
    /\ Len(KindMatches("tv")) >= 2

\* ---- claims about the import job (checked under Spec)

TitlesOf(i) == {e \in extracted_titles : e.import_id = i}

\* C1 as stated: in every state, a session whose status is completed has
\* matched_count + unmatched_count = total_titles and as many ExtractedTitle
\* rows as total_titles, also when its job was delivered more than once.
C1_AsStated ==
    \A i \in ImportIds :
        sessions[i].status = "completed" =>
            /\ sessions[i].matched_count + sessions[i].unmatched_count = sessions[i].total_titles
            /\ sessions[i].total_titles = Cardinality(TitlesOf(i))

Rank(status) ==
    CASE status = "none" -> 0
      [] status = "pending" -> 1
      [] status = "processing" -> 2
      [] status = "completed" -> 3

\* C2 as stated: no step takes a session's status backwards along
\* pending -> processing -> completed, also when its job is delivered again.
C2_AsStated ==
    [][\A i \in ImportIds : Rank(sessions'[i].status) >= Rank(sessions[i].status)]_vars

\* the rows of extracted_titles a run has created, as committed
RowsOfRun(run) == {e \in extracted_titles : RunOf(e.id) = run}

\* C3 as stated, for a run that has ended (it returned or an exception ended
\* it, the worker lives on): the session is completed and the run has created
\* one ExtractedTitle per record the extractor yields from the uploaded text.
C3_AsStated ==
    \A w \in Workers :
        worker[w].pc \in {"returned", "raised"} =>
            LET i == worker[w].import_id
                recs == extract_titles_from_text(uploads[i].content)
                rows == RowsOfRun(worker[w].run)
            IN  /\ sessions[i].status = "completed"
                /\ Cardinality(rows) = Len(recs)
                /\ \A k \in 1..Len(recs) :
                      \E e \in rows :
                          /\ e.id = ExtractedId(worker[w].run, k)
                          /\ e.raw_text = recs[k].raw_text
                          /\ e.normalized_title = recs[k].normalized_title
                          /\ e.year = recs[k].year

\* C12: a session exists for an upload as soon as the upload has committed, one
\* per upload; the session was pending when its job was enqueued, a job is
\* queued or run only for a committed session, and the response of the upload
\* reports "pending" whatever a worker has done to the session by then.
C12_ResponsePending ==
    /\ Cardinality({i \in ImportIds : sessions[i].status # "none"})
          = Cardinality({i \in ImportIds : uploads[i].pc # "none"})
    /\ \A i \in ImportIds :
          /\ uploads[i].pc \in {"enqueued", "responded"} => uploads[i].seen = "pending"
          /\ uploads[i].pc = "responded" => uploads[i].response = "pending"
          /\ ((\E m \in queue : m.import_id = i) \/ (\E w \in Workers : worker[w].import_id = i))
                => (uploads[i].pc \in {"enqueued", "responded"} /\ sessions[i].status # "none")

\* C12 witness: a response built after a worker has completed the session
C12_Witness ==
    \E i \in ImportIds :
        /\ uploads[i].pc = "responded" /\ uploads[i].response = "pending"
        /\ sessions[i].status = "completed"
        /\ \E w \in Workers : worker[w].import_id = i /\ worker[w].pc = "returned"

\* ---- claims about two imports at once (checked under SpecTwoJobs)

NoDuplicateIds(tbl) == \A a, b \in tbl : a.tmdb_id = b.tmdb_id => a = b

InLoop(w) == worker[w].pc \in {"record", "blocked", "finish", "cleanup", "returned"}
Committed(w) == worker[w].pc \in {"cleanup", "returned"}

\* C15: the events a run has emitted are numbered 1, 2, ... in order, one per
\* record processed, all with total = N, the number of records; in each event
\* 0 <= matched <= processed and matched never decreases; a run that reaches
\* its commit has emitted N events and the session's matched_count is the
\* matched of the last one; this with any of the emissions failing.
C15_ProgressEvents ==
    \A w \in Workers : InLoop(w) =>
        LET ev == worker[w].events
            N == Len(worker[w].records)
        IN  /\ Len(ev) = worker[w].idx
            /\ \A k \in 1..Len(ev) :
                  /\ ev[k].processed = k
                  /\ ev[k].total = N
                  /\ 0 <= ev[k].matched /\ ev[k].matched <= ev[k].processed
                  /\ k > 1 => ev[k - 1].matched <= ev[k].matched
            /\ worker[w].pc \in {"finish", "cleanup", "returned"} => Len(ev) = N
            /\ (Committed(w) /\ N > 0) =>
                  /\ sessions[worker[w].import_id].status = "completed"
                  /\ sessions[worker[w].import_id].matched_count = ev[N].matched

\* C15 witness: a committed run of two records whose first event failed to be
\* delivered and whose matched went from 1 to 2
C15_Witness ==
    \E w \in Workers :
        /\ Committed(w)
        /\ Len(worker[w].events) = 2
        /\ ~worker[w].events[1].delivered
        /\ worker[w].events[1].matched = 1 /\ worker[w].events[2].matched = 2
        /\ sessions[worker[w].import_id].matched_count = 2

MatchesOfRun(run) == {m \in title_matches : RunOf(m.row.extracted_title_id) = run}
CatalogRowsOfRun(run) == {r \in movies \cup shows : r.id \div 100 = run}
\* the run of worker w has begun and has not committed its rows
Uncommitted(w) == worker[w].pc \in {"start", "extract", "record", "blocked", "finish", "raised"}

\* in the database: a session that is pending or processing owns no rows; a
\* run that has not committed, or was ended by an exception, has no
\* ExtractedTitle, TitleMatch or catalog row persisted; a run ended by an
\* exception leaves its session in processing; no session is ever failed
RowsComeWithCompleted ==
    /\ \A i \in DOMAIN sessions :
          /\ sessions[i].status \in {"none", "pending", "processing", "completed"}
          /\ sessions[i].status \in {"pending", "processing"} =>
                (TitlesOf(i) = {} /\ \A m \in title_matches :
                                        \A e \in extracted_titles :
                                            m.row.extracted_title_id = e.id => e.import_id # i)
    /\ \A w \in Workers :
          /\ Uncommitted(w) =>
                /\ RowsOfRun(worker[w].run) = {}
                /\ MatchesOfRun(worker[w].run) = {}
                /\ CatalogRowsOfRun(worker[w].run) = {}
          /\ worker[w].pc = "raised" => sessions[worker[w].import_id].status = "processing"

Answered == confirm.done /\ confirm.response.code = 200
ChoiceAt(k) == confirm.body.choices[k]
\* the choice names an extracted title, and its match id is the id of a
\* TitleMatch that belongs to another extracted title
OfAnotherTitle(c) ==
    /\ c.extractedTitleId # NULL
    /\ \E m \in title_matches :
          m.id = c.matchId /\ m.row.extracted_title_id # c.extractedTitleId
InInvalid(c, reason) ==
    \E j \in 1..Len(confirm.response.invalid) :
        confirm.response.invalid[j] = [choice |-> c, reason |-> reason]
InValidated(c) ==
    \E j \in 1..Len(confirm.response.validated) :
        /\ confirm.response.validated[j].extractedTitleId = c.extractedTitleId
        /\ confirm.response.validated[j].matchId = c.matchId
\* a validated entry comes from a choice whose extracted title is of the named
\* session, whose match is of that extracted title, and whose list type
\* normalises to an accepted one
ValidatedOnlyIfSound ==
    \A j \in 1..Len(confirm.response.validated) :
        LET v == confirm.response.validated[j]
        IN  /\ v.listType \in VALID_LIST_TYPES
            /\ \E e \in extracted_titles, m \in title_matches :
                  /\ e.id = v.extractedTitleId /\ e.import_id = confirm.body.importId
                  /\ m.id = v.matchId /\ m.row.extracted_title_id = e.id
            /\ \E k \in 1..Len(confirm.body.choices) :
                  /\ ChoiceAt(k).extractedTitleId = v.extractedTitleId
                  /\ ChoiceAt(k).matchId = v.matchId
                  /\ Replace(Lower(Strip(ChoiceAt(k).listType)), "-", "_") = v.listType

\* C10 as stated: in a call that gets past the session lookup, every choice
\* whose match belongs to another extracted title than the one it names is in
\* the invalid list with reason "mismatched ids" and not in the validated list,
\* and the validated list holds only sound choices.
C10_AsStated ==
    Answered =>
        /\ \A k \in 1..Len(confirm.body.choices) :
              OfAnotherTitle(ChoiceAt(k)) =>
                  /\ InInvalid(ChoiceAt(k), "mismatched ids")
                  /\ ~InValidated(ChoiceAt(k))
        /\ ValidatedOnlyIfSound

\* C10 amended: such a choice is in the invalid list and not in the validated
\* list; its reason is "mismatched ids" when its list type is not blank, and
\* "missing fields" when its list type is missing or blank (the fields are
\* checked first); the validated list holds only sound choices.
C10_MismatchedInvalid ==
    Answered =>
        /\ \A k \in 1..Len(confirm.body.choices) :
              OfAnotherTitle(ChoiceAt(k)) =>
                  /\ ~InValidated(ChoiceAt(k))
                  /\ IF Strip(ChoiceAt(k).listType) # <<>>
                     THEN InInvalid(ChoiceAt(k), "mismatched ids")
                     ELSE InInvalid(ChoiceAt(k), "missing fields")
        /\ ValidatedOnlyIfSound

\* C10 witness: a call of two choices, the first with a match of another title
\* of the same session and an accepted list type, classified as mismatched,
\* the second validated.
C10_Witness ==
    /\ Answered
    /\ Len(confirm.body.choices) = 2
    /\ OfAnotherTitle(ChoiceAt(1))
    /\ \E e \in extracted_titles :
          e.id = ChoiceAt(1).extractedTitleId /\ e.import_id = confirm.body.importId
    /\ Replace(Lower(Strip(ChoiceAt(1).listType)), "-", "_") \in VALID_LIST_TYPES
    /\ InInvalid(ChoiceAt(1), "mismatched ids")
    /\ Len(confirm.response.validated) = 1

\* ---- claims about the extractor (checked under SpecExtract)

\* the line ends in "(dddd)" with dddd in 1900..2099
EndsInYear(line) ==
    LET n == Len(line) IN
    /\ n >= 6
    /\ line[n - 5] = "(" /\ line[n] = ")"
    /\ \A i \in (n - 4)..(n - 1) : IsDigit(line[i])
    /\ ToInt(SubSeq(line, n - 4, n - 1)) \in 1900..2099
\* the line without its last six characters, whitespace collapsed and trimmed
TitleBeforeYear(line) == Strip(CollapseWs(SubSeq(line, 1, Len(line) - 6)))
YearAtEnd(line) == ToInt(SubSeq(line, Len(line) - 4, Len(line) - 1))
OneRecord(line, title, year) ==
    ecall.records = << [raw_text |-> line, normalized_title |-> title, year |-> year] >>

\* C11 as stated: a non-empty trimmed line that ends in a parenthesised year of
\* 1900-2099 yields the record (line without the suffix, year), or nothing when
\* that title is empty; any other non-empty line yields the record (whole line
\* with whitespace collapsed, no year).
C11_AsStated ==
    (ecall.done /\ Len(ecall.text) = 1 /\ Strip(ecall.text[1]) # <<>>) =>
        LET line == Strip(ecall.text[1])
        IN  IF EndsInYear(line)
            THEN IF TitleBeforeYear(line) = <<>>
                 THEN ecall.records = <<>>
                 ELSE OneRecord(line, TitleBeforeYear(line), YearAtEnd(line))
            ELSE OneRecord(line, Strip(CollapseWs(line)), NULL)

====
